---- MODULE Spec2Model ----
(***************************************************************************)
(* Model of the HeyGen avatar service (src/main.py) and of the demo        *)
(* script's client (src/heygen_interactive_avatar.py): the transport       *)
(* layer, the session client, the session registry, the resolution policy  *)
(* and the three HTTP endpoints.                                           *)
(*                                                                         *)
(* Four specifications share the variables:                                *)
(*   Spec         the service: the endpoints create_session, talk, stop,   *)
(*                one request at a time                                    *)
(*   SpecClient   the client called directly: _handle_response, send_task  *)
(*   SpecResolve  the resolution policy over every configuration           *)
(*   SpecPool     the endpoints run by the threads of the worker pool,     *)
(*                interleaved at the registry accesses and vendor calls    *)
(***************************************************************************)
EXTENDS Integers, Sequences, FiniteSets, TLC

VARIABLES
    env,            \* the process environment read at import (os.getenv)
    DEFAULT_LANG,   \* main.py module global, after the fallback to "en"
    LANG_MAP,       \* main.py module global
    GLOBAL_AVATAR,  \* main.py module global
    GLOBAL_VOICE,   \* main.py module global
    sessions,       \* main.py module global: session_id -> session_token
    last,           \* the operation that ran last: arguments, vendor calls, outcome
    threads,        \* worker thread -> the frame of the request it is running
    vendor          \* what the vendor has handed out and been asked to stop

vars == <<env, DEFAULT_LANG, LANG_MAP, GLOBAL_AVATAR, GLOBAL_VOICE, sessions, last,
          threads, vendor>>

config == <<env, DEFAULT_LANG, LANG_MAP, GLOBAL_AVATAR, GLOBAL_VOICE>>

pool == <<threads, vendor>>

----------------------------------------------------------------------------
(* Bounds *)

MaxSessions == 2    \* session ids the vendor hands out
MaxTokens == 2      \* session tokens the vendor mints
MaxTextLen == 2     \* characters of a talk text

----------------------------------------------------------------------------
(* Python values *)

None == "None"

\* `not v` for an Optional[str]
Falsy(v) == v = None \/ v = ""

\* `a or b`
Or(a, b) == IF Falsy(a) THEN b ELSE a

SessionIds == {"s" \o ToString(i) : i \in 1..MaxSessions}

Tokens == {"t" \o ToString(i) : i \in 1..MaxTokens}

Chars == {" ", "a"}

Texts == UNION {[1..n -> Chars] : n \in 0..MaxTextLen}

RECURSIVE lstrip(_)
lstrip(t) == IF t # <<>> /\ Head(t) = " " THEN lstrip(Tail(t)) ELSE t

RECURSIVE rstrip(_)
rstrip(t) == IF t # <<>> /\ t[Len(t)] = " " THEN rstrip(SubSeq(t, 1, Len(t) - 1)) ELSE t

\* str.strip()
strip(t) == rstrip(lstrip(t))

\* `not text or not text.strip()`
text_is_empty(t) == t = <<>> \/ strip(t) = <<>>

----------------------------------------------------------------------------
(* Exception classes *)

\* issubclass(e, cls) over the classes of main.py lines 28-40
IsInstance(e, cls) ==
    \/ e = cls
    \/ cls = "Exception" /\ e # None
    \/ cls = "HeyGenError" /\ e \in {"HeyGenNetworkError", "HeyGenQuotaError"}

----------------------------------------------------------------------------
(* Vendor responses *)

QUOTA_CODE == 10008

SUCCESS_CODE == 100

\* data.get("code") of a body without a "code" key
NoCode == -1

Avatar(avatar_id, id) == [avatar_id |-> avatar_id, id |-> id]

\* What one HTTP exchange with the vendor produces: `raises` is the exception
\* requests raised ("none" when a response came back), json the shape of the
\* body ("nonjson" when r.json() raises), the rest the fields of the body.
Response(raises, status, json, code, token, session_id, has_url, avatars) ==
    [raises |-> raises, status |-> status, json |-> json, code |-> code,
     token |-> token, session_id |-> session_id, has_url |-> has_url,
     avatars |-> avatars]

NoResponse == Response("nocall", 0, "nonjson", NoCode, None, None, FALSE, <<>>)

\* A body with the fields every endpoint's success path reads
Body(status, json, code) ==
    Response("none", status, json, code, "t1", "s1", TRUE, <<Avatar("l1", None)>>)

Raised(x) == Response(x, 0, "nonjson", NoCode, None, None, FALSE, <<>>)

Statuses == {200, 304, 400, 429, 500}

Codes == {NoCode, SUCCESS_CODE, QUOTA_CODE}

\* Every exchange the transport layer is checked against
Responses ==
    {Raised("RequestException"), Raised("Exception")}
    \cup {Body(s, j, NoCode) : s \in Statuses, j \in {"nonjson", "list"}}
    \cup {Body(s, "dict", c) : s \in Statuses, c \in Codes}

\* The exchanges the endpoints are driven with
VendorResponses ==
    {Raised("RequestException"), Raised("Exception")}
    \cup {Body(200, j, NoCode) : j \in {"nonjson", "list"}}
    \cup {Body(s, "dict", c) : s \in {200, 400, 500}, c \in Codes}

Good(token, session_id, has_url, avatars) ==
    Response("none", 200, "dict", SUCCESS_CODE, token, session_id, has_url, avatars)

ListResponses ==
    VendorResponses \cup
    {Good(None, None, FALSE, a) :
        a \in {<<>>, <<Avatar(None, "l2")>>, <<Avatar(None, None)>>,
               <<Avatar("l1", None), Avatar("l3", None)>>}}

TokenResponses ==
    VendorResponses \cup {Good(t, None, FALSE, <<>>) : t \in Tokens \cup {None}}

\* session_id "missing": the body's data has no "session_id" key
NewResponses ==
    VendorResponses \cup
    {Good(None, s, u, <<>>) : s \in SessionIds \cup {"", "missing"}, u \in BOOLEAN}

AckResponses == VendorResponses

----------------------------------------------------------------------------
(* Transport layer and session client, src/main.py *)

\* requests.Response.ok
ok(r) == r.status < 400

Result(exc, ret, calls) == [exc |-> exc, ret |-> ret, calls |-> calls]

Call(api, token, session_id, avatar_id, voice_id, text) ==
    [api |-> api, token |-> token, session_id |-> session_id,
     avatar_id |-> avatar_id, voice_id |-> voice_id, text |-> text]

\* Faulty variant: the quota code is honoured on every error status
handle_response_any_status(r) ==
    IF r.json = "nonjson" THEN "HeyGenError"
    ELSE IF ~ok(r) /\ r.json = "dict" /\ r.code = QUOTA_CODE THEN "HeyGenQuotaError"
    ELSE IF ~ok(r) THEN "HeyGenError"
    ELSE None

\* HeyGenStreamingClient._handle_response: the exception raised, None when the
\* parsed body is returned
handle_response(r) ==
    IF r.json = "nonjson" THEN "HeyGenError"
    ELSE IF r.status = 400 /\ r.json = "dict" /\ r.code = QUOTA_CODE THEN "HeyGenQuotaError"
    ELSE IF ~ok(r) THEN "HeyGenError"
    ELSE None

\* The try/except around requests.get / requests.post followed by
\* _handle_response: the exception the client method raises, None when it has
\* the parsed body
exchange(r) ==
    IF r.raises = "RequestException" THEN "HeyGenNetworkError"
    ELSE IF r.raises # "none" THEN "Exception"
    ELSE handle_response(r)

\* data.get(...) on a body that is not an object raises AttributeError
get_fails(r) == r.json # "dict"

list_streaming_avatars(r) ==
    LET call == Call("avatar.list", None, None, None, None, <<>>)
        e == exchange(r)
    IN  IF e # None THEN Result(e, None, <<call>>)
        ELSE IF get_fails(r) THEN Result("Exception", None, <<call>>)
        ELSE Result(None, r.avatars, <<call>>)

create_session_token(r) ==
    LET call == Call("streaming.create_token", None, None, None, None, <<>>)
        e == exchange(r)
    IN  IF e # None THEN Result(e, None, <<call>>)
        ELSE IF get_fails(r) THEN Result("Exception", None, <<call>>)
        ELSE IF Falsy(r.token) THEN Result("HeyGenError", None, <<call>>)
        ELSE Result(None, r.token, <<call>>)

new_session(session_token, avatar_id, voice_id, r) ==
    LET call == Call("streaming.new", session_token, None, avatar_id,
                     IF Falsy(voice_id) THEN None ELSE voice_id, <<>>)
        e == exchange(r)
    IN  IF Falsy(avatar_id) THEN Result("HeyGenError", None, <<>>)
        ELSE IF e # None THEN Result(e, None, <<call>>)
        ELSE IF get_fails(r) THEN Result("Exception", None, <<call>>)
        ELSE IF r.code # SUCCESS_CODE THEN Result("HeyGenError", None, <<call>>)
        ELSE Result(None, [session_id |-> r.session_id, has_url |-> r.has_url], <<call>>)

\* Faulty variant: a failed start call is issued a second time
start_session_retrying(session_token, session_id, r) ==
    LET call == Call("streaming.start", session_token, session_id, None, None, <<>>)
        e == exchange(r)
    IN  IF Falsy(session_id) THEN Result("HeyGenError", None, <<>>)
        ELSE IF e # None THEN Result(e, None, <<call, call>>)
        ELSE Result(e, None, <<call>>)

start_session(session_token, session_id, r) ==
    LET call == Call("streaming.start", session_token, session_id, None, None, <<>>)
        e == exchange(r)
    IN  IF Falsy(session_id) THEN Result("HeyGenError", None, <<>>)
        ELSE Result(e, None, <<call>>)

send_task(session_token, session_id, text, r) ==
    LET call == Call("streaming.task", session_token, session_id, None, None, text)
    IN  IF text_is_empty(text) THEN Result("HeyGenError", None, <<>>)
        ELSE Result(exchange(r), None, <<call>>)

stop_session(session_token, session_id, r) ==
    LET call == Call("streaming.stop", session_token, session_id, None, None, <<>>)
    IN  Result(exchange(r), None, <<call>>)

----------------------------------------------------------------------------
(* The demo script's client, src/heygen_interactive_avatar.py *)

\* _handle_response of the demo script: no quota class
demo_handle_response(r) ==
    IF r.json = "nonjson" THEN "HeyGenError"
    ELSE IF ~ok(r) THEN "HeyGenError"
    ELSE None

\* send_task of the demo script: no check of the text, no try/except around
\* requests.post
demo_send_task(session_token, session_id, text, r) ==
    LET call == Call("streaming.task", session_token, session_id, None, None, text)
    IN  IF r.raises # "none" THEN Result("Exception", None, <<call>>)
        ELSE Result(demo_handle_response(r), None, <<call>>)

----------------------------------------------------------------------------
(* Environment and language table, src/main.py lines 215-249 *)

NoEnv ==
    [DEFAULT_LANG |-> None,
     FA_AVATAR_ID |-> None, FA_VOICE_ID |-> None,
     EN_AVATAR_ID |-> None, EN_VOICE_ID |-> None,
     ZH_AVATAR_ID |-> None, ZH_VOICE_ID |-> None,
     AVATAR_ID |-> None, VOICE_ID |-> None]

\* Every environment the resolution policy is checked against
AllEnvs ==
    [DEFAULT_LANG : {None, "fa", "EN", "fr"},
     FA_AVATAR_ID : {None, "fa_av"}, FA_VOICE_ID : {None, "fa_v"},
     EN_AVATAR_ID : {None, "", "en_av"}, EN_VOICE_ID : {None, "en_v"},
     ZH_AVATAR_ID : {None, "zh_av"}, ZH_VOICE_ID : {None},
     AVATAR_ID : {None, "g1"}, VOICE_ID : {None, "gv"}]

\* The environments the endpoints are run in
ServiceEnvs ==
    {NoEnv,
     [NoEnv EXCEPT !.DEFAULT_LANG = "fr", !.EN_VOICE_ID = "en_v", !.AVATAR_ID = "g1"],
     [NoEnv EXCEPT !.DEFAULT_LANG = "fa", !.FA_AVATAR_ID = "fa_av"]}

\* str.lower() on the language codes of the environments
lower(s) == CASE s = "EN" -> "en" [] s = "FR" -> "fr" [] OTHER -> s

\* raw_default_lang = os.getenv("DEFAULT_LANG") or "en"
raw_default_lang(e) == Or(e.DEFAULT_LANG, "en")

load_LANG_MAP(e) ==
    [fa |-> [avatar |-> e.FA_AVATAR_ID, voice |-> e.FA_VOICE_ID],
     en |-> [avatar |-> e.EN_AVATAR_ID, voice |-> e.EN_VOICE_ID],
     zh |-> [avatar |-> e.ZH_AVATAR_ID, voice |-> e.ZH_VOICE_ID]]

\* Faulty variant: an unknown language code is kept
load_DEFAULT_LANG_keep(e) == lower(raw_default_lang(e))

\* DEFAULT_LANG = raw_default_lang.lower(), then "en" when it is no key of LANG_MAP
load_DEFAULT_LANG(e) ==
    IF lower(raw_default_lang(e)) \notin DOMAIN load_LANG_MAP(e)
    THEN "en"
    ELSE lower(raw_default_lang(e))

----------------------------------------------------------------------------
(* Session registry: the dict `sessions` *)

EmptyRegistry == [k \in {} |-> None]

\* sessions.get(session_id)
sessions_get(reg, session_id) ==
    IF session_id \in DOMAIN reg THEN reg[session_id] ELSE None

\* sessions[session_id] = session_token
sessions_put(reg, session_id, session_token) ==
    [k \in DOMAIN reg \cup {session_id} |->
        IF k = session_id THEN session_token ELSE reg[k]]

\* sessions.pop(session_id, None)
sessions_pop(reg, session_id) ==
    [k \in DOMAIN reg \ {session_id} |-> reg[k]]

----------------------------------------------------------------------------
(* Resolution policy, src/main.py lines 252-291 *)

\* LANG_MAP.get(DEFAULT_LANG, {}).get(key)
lang_entry(key) ==
    IF DEFAULT_LANG \in DOMAIN LANG_MAP THEN LANG_MAP[DEFAULT_LANG][key] ELSE None

\* Faulty variant: the global default is preferred to the language table
configured_avatar_global_first(req_avatar) ==
    IF ~Falsy(req_avatar) THEN req_avatar ELSE Or(GLOBAL_AVATAR, lang_entry("avatar"))

\* avatar_id before the listing fallback (lines 265-268)
configured_avatar(req_avatar) ==
    IF ~Falsy(req_avatar) THEN req_avatar ELSE Or(lang_entry("avatar"), GLOBAL_AVATAR)

\* voice_id (lines 270-273)
configured_voice(req_voice) ==
    IF ~Falsy(req_voice) THEN req_voice ELSE Or(lang_entry("voice"), GLOBAL_VOICE)

Resolved(exc, avatar_id, voice_id, calls) ==
    [exc |-> exc, avatar_id |-> avatar_id, voice_id |-> voice_id, calls |-> calls]

\* Faulty variant: an empty listing is not an error
first_avatar_unchecked(req_avatar, req_voice, rl) ==
    LET ls == list_streaming_avatars(rl)
    IN  IF ls.exc # None THEN Resolved(ls.exc, None, None, ls.calls)
        ELSE IF ls.ret = <<>> THEN Resolved(None, None, configured_voice(req_voice), ls.calls)
        ELSE Resolved(None, Or(ls.ret[1].avatar_id, ls.ret[1].id),
                      configured_voice(req_voice), ls.calls)

\* step 4 (lines 276-289): the first avatar of the listing
first_avatar(req_avatar, req_voice, rl) ==
    LET ls == list_streaming_avatars(rl)
    IN  IF ls.exc # None THEN Resolved(ls.exc, None, None, ls.calls)
        ELSE IF ls.ret = <<>> THEN Resolved("HeyGenError", None, None, ls.calls)
        ELSE IF Falsy(Or(ls.ret[1].avatar_id, ls.ret[1].id))
        THEN Resolved("HeyGenError", None, None, ls.calls)
        ELSE Resolved(None, Or(ls.ret[1].avatar_id, ls.ret[1].id),
                      configured_voice(req_voice), ls.calls)

\* Faulty variant: the avatars are listed before the configuration is looked at
resolve_avatar_and_voice_listing_first(req_avatar, req_voice, rl) ==
    IF Falsy(configured_avatar(req_avatar))
    THEN first_avatar(req_avatar, req_voice, rl)
    ELSE Resolved(None, configured_avatar(req_avatar), configured_voice(req_voice),
                  list_streaming_avatars(rl).calls)

\* rl is the vendor's answer to the listing call, read only when it is issued
resolve_avatar_and_voice(req_avatar, req_voice, rl) ==
    IF Falsy(configured_avatar(req_avatar))
    THEN first_avatar(req_avatar, req_voice, rl)
    ELSE Resolved(None, configured_avatar(req_avatar), configured_voice(req_voice), <<>>)

----------------------------------------------------------------------------
(* Resolution of the demo script, src/heygen_interactive_avatar.py *)

\* normalize_lang on the language codes of the environments
normalize_lang(env_value) ==
    LET v == lower(Or(env_value, ""))
    IN  IF v \in {"fa", "fa-ir", "persian"} THEN "fa"
        ELSE IF v \in {"en", "eng", "en-us", "en-gb", "english"} THEN "en"
        ELSE IF v \in {"zh", "cn", "china", "chinese", "zh-cn", "zh-hans"} THEN "zh"
        ELSE "en"

\* resolve_avatar_voice_from_env
resolve_avatar_voice_from_env(e, lang) ==
    LET avatar_id_env == CASE lang = "fa" -> e.FA_AVATAR_ID
                           [] lang = "en" -> e.EN_AVATAR_ID
                           [] lang = "zh" -> e.ZH_AVATAR_ID
                           [] OTHER -> None
        voice_id_env == CASE lang = "fa" -> e.FA_VOICE_ID
                          [] lang = "en" -> e.EN_VOICE_ID
                          [] lang = "zh" -> e.ZH_VOICE_ID
                          [] OTHER -> None
    IN  [avatar_id |-> IF Falsy(avatar_id_env) THEN e.AVATAR_ID ELSE avatar_id_env,
         voice_id |-> IF Falsy(voice_id_env) THEN e.VOICE_ID ELSE voice_id_env]

----------------------------------------------------------------------------
(* Endpoints, src/main.py lines 336-439 *)

\* What a handler leaves behind: the HTTP status it answers with, the registry,
\* the vendor calls it issued, the exception it caught (None when it returned
\* normally) and the vendor's answer to the last call it issued
Outcome(status, reg, calls, exc, resp) ==
    [status |-> status, sessions |-> reg, calls |-> calls, exc |-> exc, resp |-> resp]

\* Faulty variant: the generic except clause comes first
create_session_status_generic_first(e) ==
    IF IsInstance(e, "HeyGenError") THEN 502
    ELSE IF IsInstance(e, "HeyGenQuotaError") THEN 429
    ELSE IF IsInstance(e, "HeyGenNetworkError") THEN 503
    ELSE 500

\* the except clauses of create_session (lines 364-381)
create_session_status(e) ==
    IF IsInstance(e, "HeyGenQuotaError") THEN 429
    ELSE IF IsInstance(e, "HeyGenNetworkError") THEN 503
    ELSE IF IsInstance(e, "HeyGenError") THEN 502
    ELSE 500

\* the except clauses of talk (lines 401-415)
talk_status(e) ==
    IF IsInstance(e, "HeyGenQuotaError") THEN 429
    ELSE IF IsInstance(e, "HeyGenNetworkError") THEN 503
    ELSE IF IsInstance(e, "HeyGenError") THEN 502
    ELSE 500

\* the except clauses of stop (lines 428-437)
stop_status(e) ==
    IF IsInstance(e, "HeyGenNetworkError") THEN 503
    ELSE IF IsInstance(e, "HeyGenError") THEN 502
    ELSE 500

\* Faulty variant: the session is registered before it is started
create_session_registers_early(reg, req_avatar, req_voice, rl, rt, rn, rs) ==
    LET rv == resolve_avatar_and_voice(req_avatar, req_voice, rl)
        tk == create_session_token(rt)
        ns == new_session(tk.ret, rv.avatar_id, rv.voice_id, rn)
        session_id == ns.ret.session_id
        st == start_session(tk.ret, session_id, rs)
        c1 == rv.calls
        c2 == c1 \o tk.calls
        c3 == c2 \o ns.calls
        c4 == c3 \o st.calls
        put == sessions_put(reg, session_id, tk.ret)
        fail(e, calls, resp) == Outcome(create_session_status(e), reg, calls, e, resp)
    IN  IF rv.exc # None THEN fail(rv.exc, c1, IF c1 = <<>> THEN NoResponse ELSE rl)
        ELSE IF tk.exc # None THEN fail(tk.exc, c2, rt)
        ELSE IF ns.exc # None THEN fail(ns.exc, c3, IF ns.calls = <<>> THEN rt ELSE rn)
        ELSE IF session_id = "missing" THEN fail("Exception", c3, rn)
        ELSE IF st.exc # None
        THEN Outcome(create_session_status(st.exc), put, c4, st.exc,
                     IF st.calls = <<>> THEN rn ELSE rs)
        ELSE IF ~ns.ret.has_url THEN Outcome(500, put, c4, "Exception", rs)
        ELSE Outcome(200, put, c4, None, rs)

\* create_session (lines 336-381); rl, rt, rn, rs are the vendor's answers to the
\* listing, token, open and start calls, each read only when the call is issued
create_session(reg, req_avatar, req_voice, rl, rt, rn, rs) ==
    LET rv == resolve_avatar_and_voice(req_avatar, req_voice, rl)
        tk == create_session_token(rt)
        ns == new_session(tk.ret, rv.avatar_id, rv.voice_id, rn)
        session_id == ns.ret.session_id
        st == start_session(tk.ret, session_id, rs)
        c1 == rv.calls
        c2 == c1 \o tk.calls
        c3 == c2 \o ns.calls
        c4 == c3 \o st.calls
        fail(e, calls, resp) == Outcome(create_session_status(e), reg, calls, e, resp)
    IN  IF rv.exc # None THEN fail(rv.exc, c1, IF c1 = <<>> THEN NoResponse ELSE rl)
        ELSE IF tk.exc # None THEN fail(tk.exc, c2, rt)
        ELSE IF ns.exc # None THEN fail(ns.exc, c3, IF ns.calls = <<>> THEN rt ELSE rn)
        ELSE IF session_id = "missing" THEN fail("Exception", c3, rn)
        ELSE IF st.exc # None THEN fail(st.exc, c4, IF st.calls = <<>> THEN rn ELSE rs)
        ELSE IF ~ns.ret.has_url
        THEN Outcome(500, sessions_put(reg, session_id, tk.ret), c4, "Exception", rs)
        ELSE Outcome(200, sessions_put(reg, session_id, tk.ret), c4, None, rs)

\* Faulty variant: the text is checked before the registry
talk_text_first(reg, session_id, text, r) ==
    LET session_token == sessions_get(reg, session_id)
        resp == send_task(session_token, session_id, text, r)
    IN  IF text_is_empty(text) THEN Outcome(400, reg, <<>>, None, NoResponse)
        ELSE IF Falsy(session_token) THEN Outcome(404, reg, <<>>, None, NoResponse)
        ELSE IF resp.exc # None
        THEN Outcome(talk_status(resp.exc), reg, resp.calls, resp.exc,
                     IF resp.calls = <<>> THEN NoResponse ELSE r)
        ELSE Outcome(200, reg, resp.calls, None, r)

\* Faulty variant: a failed vendor call drops the session
talk_evicts(reg, session_id, text, r) ==
    LET session_token == sessions_get(reg, session_id)
        resp == send_task(session_token, session_id, text, r)
    IN  IF Falsy(session_token) THEN Outcome(404, reg, <<>>, None, NoResponse)
        ELSE IF text_is_empty(text) THEN Outcome(400, reg, <<>>, None, NoResponse)
        ELSE IF resp.exc # None
        THEN Outcome(talk_status(resp.exc), sessions_pop(reg, session_id),
                     resp.calls, resp.exc,
                     IF resp.calls = <<>> THEN NoResponse ELSE r)
        ELSE Outcome(200, reg, resp.calls, None, r)

\* talk (lines 384-415)
talk(reg, session_id, text, r) ==
    LET session_token == sessions_get(reg, session_id)
        resp == send_task(session_token, session_id, text, r)
    IN  IF Falsy(session_token) THEN Outcome(404, reg, <<>>, None, NoResponse)
        ELSE IF text_is_empty(text) THEN Outcome(400, reg, <<>>, None, NoResponse)
        ELSE IF resp.exc # None
        THEN Outcome(talk_status(resp.exc), reg, resp.calls, resp.exc,
                     IF resp.calls = <<>> THEN NoResponse ELSE r)
        ELSE Outcome(200, reg, resp.calls, None, r)

\* Faulty variant: the entry is removed only when the vendor call succeeds
stop_finally_on_success(reg, session_id, exc) ==
    IF exc = None THEN sessions_pop(reg, session_id) ELSE reg

\* Faulty variant: the finally clause empties the registry
stop_finally_clears(reg, session_id, exc) == EmptyRegistry

\* the finally clause of stop (lines 438-439); exc is the exception in flight
stop_finally(reg, session_id, exc) == sessions_pop(reg, session_id)

\* Faulty variant: the vendor is called whether or not the session is known
stop_without_lookup(reg, session_id, r) ==
    LET session_token == sessions_get(reg, session_id)
        resp == stop_session(session_token, session_id, r)
    IN  IF resp.exc # None
        THEN Outcome(stop_status(resp.exc), stop_finally(reg, session_id, resp.exc),
                     resp.calls, resp.exc, r)
        ELSE Outcome(200, stop_finally(reg, session_id, None), resp.calls, None, r)

\* stop (lines 418-439)
stop(reg, session_id, r) ==
    LET session_token == sessions_get(reg, session_id)
        resp == stop_session(session_token, session_id, r)
    IN  IF Falsy(session_token) THEN Outcome(200, reg, <<>>, None, NoResponse)
        ELSE IF resp.exc # None
        THEN Outcome(stop_status(resp.exc), stop_finally(reg, session_id, resp.exc),
                     resp.calls, resp.exc, r)
        ELSE Outcome(200, stop_finally(reg, session_id, None), resp.calls, None, r)

----------------------------------------------------------------------------
(* State *)

NoOp ==
    [op |-> "none", session_id |-> None, text |-> <<>>,
     req_avatar |-> None, req_voice |-> None,
     status |-> 0, exc |-> None, before |-> EmptyRegistry, calls |-> <<>>,
     resp |-> NoResponse, listed |-> NoResponse, answers |-> <<>>,
     avatar_id |-> None, voice_id |-> None, body |-> "none"]

\* The threads that run the endpoints: FastAPI runs a `def` endpoint in a
\* thread of its pool, so two requests can be in flight at once
Workers == {"w1", "w2"}

NoCall == Call("none", None, None, None, None, <<>>)

\* session_info before new_session has returned
NoInfo == [session_id |-> None, has_url |-> FALSE]

\* The locals of a handler, its position, the vendor call it issued last and
\* the status it answers; minted is the token the vendor gave this request
IdleFrame ==
    [op |-> "none", pc |-> "idle", session_id |-> None, session_token |-> None,
     text |-> <<>>, avatar_id |-> None, voice_id |-> None, session_info |-> NoInfo,
     minted |-> None, call |-> NoCall, exc |-> None, status |-> 0]

\* The vendor before any call: no token minted, no session opened, no stop
\* call received
NoVendor ==
    [minted |-> {}, opened |-> [s \in SessionIds |-> None], stopped |-> {}]

InitWith(envs) ==
    /\ env \in envs
    /\ LANG_MAP = load_LANG_MAP(env)
    /\ DEFAULT_LANG = load_DEFAULT_LANG(env)
    /\ GLOBAL_AVATAR = env.AVATAR_ID
    /\ GLOBAL_VOICE = env.VOICE_ID
    /\ sessions = EmptyRegistry
    /\ last = NoOp
    /\ threads = [w \in Workers |-> IdleFrame]
    /\ vendor = NoVendor

Init == InitWith(ServiceEnvs)

Finish(op, out, before) ==
    [NoOp EXCEPT !.op = op, !.status = out.status, !.exc = out.exc,
                 !.before = before, !.calls = out.calls, !.resp = out.resp]

\* The worker is free: the answer of the operation that ran last has been sent
Idle == last.op = "none"

\* Whether the operation that left `out` issued the vendor call `api`
Issues(out, api) == \E i \in DOMAIN out.calls : out.calls[i].api = api

\* The vendor's answers to a call: one of `answers` when the handler gets as far
\* as issuing the call, no answer otherwise
AnswersTo(out, api, answers) == IF Issues(out, api) THEN answers ELSE {NoResponse}

\* The vendor's answers to the calls of an operation, in the order of the calls
Answers(rs) == SelectSeq(rs, LAMBDA r : r # NoResponse)

\* POST /api/avatar/session
CreateSession ==
    /\ Idle
    /\ \E req_avatar \in {None, "a1"}, req_voice \in {None, "v1"} :
       \E rl \in AnswersTo(create_session(sessions, req_avatar, req_voice,
                               NoResponse, NoResponse, NoResponse, NoResponse),
                           "avatar.list", ListResponses) :
       \E rt \in AnswersTo(create_session(sessions, req_avatar, req_voice,
                               rl, NoResponse, NoResponse, NoResponse),
                           "streaming.create_token", TokenResponses) :
       \E rn \in AnswersTo(create_session(sessions, req_avatar, req_voice,
                               rl, rt, NoResponse, NoResponse),
                           "streaming.new", NewResponses) :
       \E rs \in AnswersTo(create_session(sessions, req_avatar, req_voice,
                               rl, rt, rn, NoResponse),
                           "streaming.start", AckResponses) :
          LET out == create_session(sessions, req_avatar, req_voice, rl, rt, rn, rs)
          IN  /\ sessions' = out.sessions
              /\ last' = [Finish("create_session", out, sessions) EXCEPT
                              !.req_avatar = req_avatar, !.req_voice = req_voice,
                              !.listed = rl,
                              !.answers = Answers(<<rl, rt, rn, rs>>)]
              /\ UNCHANGED <<config, pool>>

\* POST /api/avatar/talk
Talk ==
    /\ Idle
    /\ \E session_id \in SessionIds, text \in Texts :
       \E r \in AnswersTo(talk(sessions, session_id, text, NoResponse),
                          "streaming.task", AckResponses) :
          LET out == talk(sessions, session_id, text, r)
          IN  /\ sessions' = out.sessions
              /\ last' = [Finish("talk", out, sessions) EXCEPT
                              !.session_id = session_id, !.text = text,
                              !.answers = Answers(<<r>>)]
              /\ UNCHANGED <<config, pool>>

\* POST /api/avatar/stop
Stop ==
    /\ Idle
    /\ \E session_id \in SessionIds :
       \E r \in AnswersTo(stop(sessions, session_id, NoResponse),
                          "streaming.stop", AckResponses) :
          LET out == stop(sessions, session_id, r)
          IN  /\ sessions' = out.sessions
              /\ last' = [Finish("stop", out, sessions) EXCEPT
                              !.session_id = session_id,
                              !.answers = Answers(<<r>>),
                              !.body = IF out.calls = <<>>
                                       THEN "already_closed" ELSE "resp"]
              /\ UNCHANGED <<config, pool>>

\* The answer goes out to the caller and the next request can be taken
Respond ==
    /\ ~Idle
    /\ last' = NoOp
    /\ UNCHANGED <<config, sessions, pool>>

Next == CreateSession \/ Talk \/ Stop \/ Respond

Spec == Init /\ [][Next]_vars

----------------------------------------------------------------------------
(* The client called directly *)

\* HeyGenStreamingClient._handle_response on one exchange
HandleResponse ==
    /\ Idle
    /\ \E r \in Responses \ {Raised("RequestException"), Raised("Exception")} :
          last' = [NoOp EXCEPT !.op = "_handle_response", !.resp = r,
                               !.exc = handle_response(r)]
    /\ UNCHANGED <<config, sessions, pool>>

\* client.send_task of src/main.py
SendTask ==
    /\ Idle
    /\ \E session_token \in Tokens, session_id \in SessionIds, text \in Texts :
       \E r \in AnswersTo(send_task(session_token, session_id, text, NoResponse),
                          "streaming.task", Responses) :
          LET res == send_task(session_token, session_id, text, r)
          IN  last' = [NoOp EXCEPT !.op = "send_task", !.session_id = session_id,
                                   !.text = text, !.exc = res.exc,
                                   !.calls = res.calls, !.resp = r]
    /\ UNCHANGED <<config, sessions, pool>>

\* client.send_task of src/heygen_interactive_avatar.py
DemoSendTask ==
    /\ Idle
    /\ \E session_token \in Tokens, session_id \in SessionIds, text \in Texts :
       \E r \in AnswersTo(demo_send_task(session_token, session_id, text, NoResponse),
                          "streaming.task", Responses) :
          LET res == demo_send_task(session_token, session_id, text, r)
          IN  last' = [NoOp EXCEPT !.op = "demo_send_task", !.session_id = session_id,
                                   !.text = text, !.exc = res.exc,
                                   !.calls = res.calls, !.resp = r]
    /\ UNCHANGED <<config, sessions, pool>>

NextClient == HandleResponse \/ SendTask \/ DemoSendTask \/ Respond

SpecClient == Init /\ [][NextClient]_vars

----------------------------------------------------------------------------
(* The resolution policy over every environment *)

InitResolve == InitWith(AllEnvs)

\* resolve_avatar_and_voice of src/main.py
Resolve ==
    /\ Idle
    /\ \E req_avatar \in {None, "", "a1"}, req_voice \in {None, "", "v1"} :
       \E rl \in AnswersTo(resolve_avatar_and_voice(req_avatar, req_voice, NoResponse),
                           "avatar.list", ListResponses) :
          LET rv == resolve_avatar_and_voice(req_avatar, req_voice, rl)
          IN  last' = [NoOp EXCEPT !.op = "resolve", !.req_avatar = req_avatar,
                                   !.req_voice = req_voice, !.exc = rv.exc,
                                   !.calls = rv.calls, !.resp = rl, !.listed = rl,
                                   !.avatar_id = rv.avatar_id, !.voice_id = rv.voice_id]
    /\ UNCHANGED <<config, sessions, pool>>

\* main() of src/heygen_interactive_avatar.py, lines 379-388
DemoResolve ==
    /\ Idle
    /\ LET raw == IF env.DEFAULT_LANG = None THEN "en" ELSE env.DEFAULT_LANG
           rv == resolve_avatar_voice_from_env(env, normalize_lang(raw))
       IN  last' = [NoOp EXCEPT !.op = "demo_resolve",
                                !.avatar_id = rv.avatar_id, !.voice_id = rv.voice_id]
    /\ UNCHANGED <<config, sessions, pool>>

NextResolve == Resolve \/ DemoResolve \/ Respond

SpecResolve == InitResolve /\ [][NextResolve]_vars

----------------------------------------------------------------------------
(* The endpoints run by the worker pool.  A handler is cut where another     *)
(* thread can see or change what it works on: at each access to `sessions`   *)
(* (one dict operation is atomic) and at each vendor call.                   *)

InitPool == InitWith({NoEnv})

\* The talk texts of the pooled requests: a blank one and one that is sent
PoolTexts == {<<>>, <<"a">>}

\* The vendor's failures: a timeout, the quota answer, a server error
PoolFailures ==
    {Raised("RequestException"), Body(400, "dict", QUOTA_CODE), Body(500, "dict", NoCode)}

PoolListResponses == PoolFailures \cup {Good(None, None, FALSE, <<Avatar("a1", None)>>)}

\* The vendor mints a token it has not minted before
PoolTokenResponses ==
    PoolFailures \cup {Good(t, None, FALSE, <<>>) : t \in Tokens \ vendor.minted}

\* The vendor opens a session under an id it has not used before
PoolNewResponses ==
    PoolFailures \cup
    {Good(None, s, TRUE, <<>>) : s \in {x \in SessionIds : vendor.opened[x] = None}}

PoolAckResponses == PoolFailures \cup {Good(None, None, FALSE, <<>>)}

\* The request is over, the answer is ready
Done(f, status) == [f EXCEPT !.pc = "done", !.status = status]

\* The call a client method issued, if it issued one
Issued(res, f) == IF res.calls = <<>> THEN f.call ELSE res.calls[Len(res.calls)]

\* Faulty variant: the token is kept where the other thread's request puts its own
local_session_token_shared(w) ==
    IF \E v \in Workers \ {w} : threads[v].op = "create_session"
                                /\ ~Falsy(threads[v].session_token)
    THEN threads[CHOOSE v \in Workers \ {w} :
                     threads[v].op = "create_session"
                     /\ ~Falsy(threads[v].session_token)].session_token
    ELSE threads[w].session_token

\* session_token of create_session (line 347) is a local of the request
local_session_token(w) == threads[w].session_token

\* create_session, lines 338-345: the request is taken and resolved
CreateSessionResolve(w) ==
    /\ threads[w].pc = "idle"
    /\ \E req_avatar \in {None, "a1"} :
       \E rl \in IF resolve_avatar_and_voice(req_avatar, None, NoResponse).calls = <<>>
                 THEN {NoResponse} ELSE PoolListResponses :
          LET rv == resolve_avatar_and_voice(req_avatar, None, rl)
              f == [IdleFrame EXCEPT !.op = "create_session"]
              g == [f EXCEPT !.call = Issued(rv, f)]
          IN  threads' = [threads EXCEPT ![w] =
                  IF rv.exc # None
                  THEN Done([g EXCEPT !.exc = rv.exc], create_session_status(rv.exc))
                  ELSE [g EXCEPT !.pc = "token", !.avatar_id = rv.avatar_id,
                                 !.voice_id = rv.voice_id]]
    /\ UNCHANGED <<config, sessions, last, vendor>>

\* create_session, line 347
CreateSessionToken(w) ==
    /\ threads[w].pc = "token"
    /\ \E rt \in PoolTokenResponses :
          LET f == threads[w]
              tk == create_session_token(rt)
              g == [f EXCEPT !.call = Issued(tk, f)]
          IN  IF tk.exc # None
              THEN /\ threads' = [threads EXCEPT ![w] =
                          Done([g EXCEPT !.exc = tk.exc], create_session_status(tk.exc))]
                   /\ UNCHANGED vendor
              ELSE /\ threads' = [threads EXCEPT ![w] =
                          [g EXCEPT !.pc = "new", !.session_token = tk.ret,
                                    !.minted = rt.token]]
                   /\ vendor' = [vendor EXCEPT !.minted = @ \cup {rt.token}]
    /\ UNCHANGED <<config, sessions, last>>

\* create_session, lines 348-353
CreateSessionNew(w) ==
    /\ threads[w].pc = "new"
    /\ \E rn \in PoolNewResponses :
          LET f == threads[w]
              ns == new_session(local_session_token(w), f.avatar_id, f.voice_id, rn)
              g == [f EXCEPT !.call = Issued(ns, f)]
          IN  IF ns.exc # None
              THEN /\ threads' = [threads EXCEPT ![w] =
                          Done([g EXCEPT !.exc = ns.exc], create_session_status(ns.exc))]
                   /\ UNCHANGED vendor
              ELSE /\ threads' = [threads EXCEPT ![w] =
                          IF ns.ret.session_id = "missing"
                          THEN Done([g EXCEPT !.exc = "Exception", !.session_info = ns.ret],
                                    create_session_status("Exception"))
                          ELSE [g EXCEPT !.pc = "start", !.session_info = ns.ret,
                                         !.session_id = ns.ret.session_id]]
                   /\ vendor' = [vendor EXCEPT !.opened[rn.session_id] = g.call.token]
    /\ UNCHANGED <<config, sessions, last>>

\* create_session, line 355
CreateSessionStart(w) ==
    /\ threads[w].pc = "start"
    /\ \E rs \in PoolAckResponses :
          LET f == threads[w]
              st == start_session(local_session_token(w), f.session_id, rs)
              g == [f EXCEPT !.call = Issued(st, f)]
          IN  threads' = [threads EXCEPT ![w] =
                  IF st.exc # None
                  THEN Done([g EXCEPT !.exc = st.exc], create_session_status(st.exc))
                  ELSE [g EXCEPT !.pc = "put"]]
    /\ UNCHANGED <<config, sessions, last, vendor>>

\* create_session, lines 356-362: the entry is written, the answer is built
CreateSessionPut(w) ==
    /\ threads[w].pc = "put"
    /\ sessions' = sessions_put(sessions, threads[w].session_id, local_session_token(w))
    /\ threads' = [threads EXCEPT ![w] =
           IF threads[w].session_info.has_url
           THEN Done(threads[w], 200)
           ELSE Done([threads[w] EXCEPT !.exc = "Exception"],
                     create_session_status("Exception"))]
    /\ UNCHANGED <<config, last, vendor>>

\* talk, lines 386-392: the request is taken, the token is read
TalkGet(w) ==
    /\ threads[w].pc = "idle"
    /\ \E session_id \in SessionIds, text \in PoolTexts :
          LET f == [IdleFrame EXCEPT !.op = "talk", !.session_id = session_id,
                                     !.text = text,
                                     !.session_token = sessions_get(sessions, session_id)]
          IN  threads' = [threads EXCEPT ![w] =
                  IF Falsy(f.session_token) THEN Done(f, 404)
                  ELSE IF text_is_empty(text) THEN Done(f, 400)
                  ELSE [f EXCEPT !.pc = "task"]]
    /\ UNCHANGED <<config, sessions, last, vendor>>

\* talk, lines 394-415
TalkSend(w) ==
    /\ threads[w].pc = "task"
    /\ \E r \in PoolAckResponses :
          LET f == threads[w]
              res == send_task(f.session_token, f.session_id, f.text, r)
              g == [f EXCEPT !.call = Issued(res, f), !.exc = res.exc]
          IN  threads' = [threads EXCEPT ![w] =
                  Done(g, IF res.exc # None THEN talk_status(res.exc) ELSE 200)]
    /\ UNCHANGED <<config, sessions, last, vendor>>

\* stop, lines 420-423: the request is taken, the token is read
StopGet(w) ==
    /\ threads[w].pc = "idle"
    /\ \E session_id \in SessionIds :
          LET f == [IdleFrame EXCEPT !.op = "stop", !.session_id = session_id,
                                     !.session_token = sessions_get(sessions, session_id)]
          IN  threads' = [threads EXCEPT ![w] =
                  IF Falsy(f.session_token) THEN Done(f, 200)
                  ELSE [f EXCEPT !.pc = "stop"]]
    /\ UNCHANGED <<config, sessions, last, vendor>>

\* stop, lines 425-437
StopCall(w) ==
    /\ threads[w].pc = "stop"
    /\ \E r \in PoolAckResponses :
          LET f == threads[w]
              res == stop_session(f.session_token, f.session_id, r)
              g == [f EXCEPT !.call = Issued(res, f), !.exc = res.exc]
          IN  /\ threads' = [threads EXCEPT ![w] =
                     [g EXCEPT !.pc = "pop",
                               !.status = IF res.exc # None THEN stop_status(res.exc)
                                          ELSE 200]]
              /\ vendor' = [vendor EXCEPT !.stopped = @ \cup {f.session_id}]
    /\ UNCHANGED <<config, sessions, last>>

\* stop, lines 438-439: the finally clause
StopPop(w) ==
    /\ threads[w].pc = "pop"
    /\ sessions' = stop_finally(sessions, threads[w].session_id, threads[w].exc)
    /\ threads' = [threads EXCEPT ![w] = Done(threads[w], threads[w].status)]
    /\ UNCHANGED <<config, last, vendor>>

\* The answer goes out and the thread is free for the next request
Reply(w) ==
    /\ threads[w].pc = "done"
    /\ threads' = [threads EXCEPT ![w] = IdleFrame]
    /\ UNCHANGED <<config, sessions, last, vendor>>

NextPool ==
    \E w \in Workers :
        \/ CreateSessionResolve(w)
        \/ CreateSessionToken(w)
        \/ CreateSessionNew(w)
        \/ CreateSessionStart(w)
        \/ CreateSessionPut(w)
        \/ TalkGet(w)
        \/ TalkSend(w)
        \/ StopGet(w)
        \/ StopCall(w)
        \/ StopPop(w)
        \/ Reply(w)

SpecPool == InitPool /\ [][NextPool]_vars

----------------------------------------------------------------------------
(* Vocabulary of the properties *)

Endpoints == {"create_session", "talk", "stop"}

\* The api of the last vendor call the operation issued
LastApi == IF last.calls = <<>> THEN "none" ELSE last.calls[Len(last.calls)].api

\* The vendor's quota-exhaustion answer: HTTP 400 with code 10008 in the body
\* (the answer main.py lines 74-79 are written for)
QuotaSentinel(r) == r.raises = "none" /\ r.status = 400 /\ r.code = QUOTA_CODE

\* The exchange failed at the network level (DNS, timeout, refused)
NetworkFailure(r) == r.raises = "RequestException"

\* An HTTP error answer of the vendor that is not the quota sentinel
OtherBackendFailure(r) == r.raises = "none" /\ r.status >= 400 /\ ~QuotaSentinel(r)

AnyNonEmpty(seq) == \E i \in DOMAIN seq : ~Falsy(seq[i])

\* The first non-empty value of a sequence that has one
FirstNonEmpty(seq) ==
    seq[CHOOSE i \in DOMAIN seq :
            ~Falsy(seq[i]) /\ \A j \in DOMAIN seq : j < i => Falsy(seq[j])]

\* The listing call was answered with a list that gives no avatar id
ListingGivesNoAvatar(r) ==
    /\ r.raises = "none" /\ r.status = 200 /\ r.json = "dict"
    /\ \/ r.avatars = <<>>
       \/ r.avatars # <<>> /\ Falsy(r.avatars[1].avatar_id) /\ Falsy(r.avatars[1].id)

----------------------------------------------------------------------------
(* C1: once stop has run for a session_id, the registry holds no entry for
   that session_id, whether the vendor stop call succeeded, failed with a
   network error, failed with a backend error or raised anything else. *)
StopRemovesEntry ==
    last.op = "stop" => last.session_id \notin DOMAIN sessions

\* a registered session whose vendor stop call failed at the network level
StopRemovesEntryWitness ==
    /\ last.op = "stop"
    /\ last.session_id \in DOMAIN last.before
    /\ NetworkFailure(last.resp)
    /\ last.status = 503

(* C2: when the vendor answers the open-session call with the quota sentinel,
   create_session answers 429 and the registry is the registry before the
   call. *)
QuotaOnOpenGives429 ==
    (last.op = "create_session" /\ LastApi = "streaming.new" /\ QuotaSentinel(last.resp))
        => last.status = 429 /\ sessions = last.before

QuotaOnOpenWitness ==
    /\ last.op = "create_session"
    /\ LastApi = "streaming.new"
    /\ QuotaSentinel(last.resp)
    /\ last.before # EmptyRegistry

(* C3: talk for a session_id that is not in the registry answers 404 and
   issues no vendor call, whatever the text is. *)
TalkUnknownIs404 ==
    (last.op = "talk" /\ last.session_id \notin DOMAIN last.before)
        => last.status = 404 /\ last.calls = <<>>

\* an unknown session and a blank text, with another session registered
TalkUnknownWitness ==
    /\ last.op = "talk"
    /\ last.session_id \notin DOMAIN last.before
    /\ last.before # EmptyRegistry
    /\ text_is_empty(last.text)
    /\ last.status = 404

(* C4: on each of the three endpoints a vendor failure is mapped to the
   outward status by its kind: quota exhaustion gives 429, network failure
   gives 503, any other backend failure gives 502. *)
StatusByFailureKind ==
    (last.op \in Endpoints /\ last.calls # <<>>) =>
        /\ QuotaSentinel(last.resp) => last.status = 429
        /\ NetworkFailure(last.resp) => last.status = 503
        /\ OtherBackendFailure(last.resp) => last.status = 502

(* C5, as claimed: every non-2xx answer whose JSON body carries code 10008
   raises HeyGenQuotaError, every other non-2xx answer the generic
   HeyGenError. *)
QuotaOnAnyNon2xx ==
    (last.op = "_handle_response" /\ last.resp.status \notin 200..299) =>
        last.exc = IF last.resp.json = "dict" /\ last.resp.code = QUOTA_CODE
                   THEN "HeyGenQuotaError" ELSE "HeyGenError"

(* C5, amended: an answer with HTTP status 400 whose JSON body is an object
   carrying code 10008 raises HeyGenQuotaError; every other answer with an
   error status (400 and above) raises the generic HeyGenError. *)
QuotaOn400Only ==
    (last.op = "_handle_response" /\ last.resp.status >= 400) =>
        last.exc = IF /\ last.resp.status = 400
                      /\ last.resp.json = "dict"
                      /\ last.resp.code = QUOTA_CODE
                   THEN "HeyGenQuotaError" ELSE "HeyGenError"

QuotaOn400Witness ==
    /\ last.op = "_handle_response"
    /\ last.resp.status = 400
    /\ last.resp.json = "dict"
    /\ last.resp.code = QUOTA_CODE
    /\ last.exc = "HeyGenQuotaError"

\* The class _handle_response raises for a backend failure (line 83)
BackendErrorClass == "HeyGenError"

(* C6: send_task with an empty or whitespace-only text fails with an
   invalid-argument kind that differs from the kind of a vendor backend
   error, and issues no network call. *)
BlankTextIsInvalidArgument ==
    (last.op \in {"send_task", "demo_send_task"} /\ text_is_empty(last.text)) =>
        /\ last.exc # None
        /\ last.exc # BackendErrorClass
        /\ last.calls = <<>>

(* C7: resolve_avatar_and_voice picks, independently for the avatar and the
   voice, the first non-empty of the explicit value, the table entry of the
   active language and the global default; for the avatar only, when all
   three are empty, the first element of the listing. An empty voice causes
   neither a listing call nor an error. *)
ResolvePrecedence ==
    last.op = "resolve" =>
        LET av == <<last.req_avatar, LANG_MAP[DEFAULT_LANG].avatar, GLOBAL_AVATAR>>
            vo == <<last.req_voice, LANG_MAP[DEFAULT_LANG].voice, GLOBAL_VOICE>>
            first == last.listed.avatars[1]
        IN  /\ AnyNonEmpty(av) =>
                /\ last.exc = None
                /\ last.avatar_id = FirstNonEmpty(av)
                /\ last.calls = <<>>
            /\ ~AnyNonEmpty(av) =>
                /\ Len(last.calls) = 1
                /\ last.calls[1].api = "avatar.list"
                /\ last.exc = None =>
                    /\ last.listed.avatars # <<>>
                    /\ last.avatar_id = FirstNonEmpty(<<first.avatar_id, first.id>>)
            /\ last.exc = None =>
                IF AnyNonEmpty(vo)
                THEN last.voice_id = FirstNonEmpty(vo)
                ELSE Falsy(last.voice_id)

\* the table entry wins over a different global default, and the global voice
\* is taken when the table has none
ResolvePrecedenceWitness ==
    /\ last.op = "resolve"
    /\ Falsy(last.req_avatar)
    /\ ~Falsy(LANG_MAP[DEFAULT_LANG].avatar)
    /\ ~Falsy(GLOBAL_AVATAR)
    /\ last.avatar_id = LANG_MAP[DEFAULT_LANG].avatar
    /\ Falsy(last.req_voice)
    /\ Falsy(LANG_MAP[DEFAULT_LANG].voice)
    /\ ~Falsy(GLOBAL_VOICE)
    /\ last.voice_id = GLOBAL_VOICE

\* The configured language code is no key of the language table
UnknownLang == lower(raw_default_lang(env)) \notin DOMAIN LANG_MAP

(* C8, as claimed: for a configured language that is no key of the table,
   resolution with no explicit override yields the global default avatar and
   voice (the first listed avatar when there is no global avatar), never the
   table entry of another language. *)
UnknownLangUsesGlobal ==
    (/\ last.op = "resolve" /\ UnknownLang
     /\ Falsy(last.req_avatar) /\ Falsy(last.req_voice)) =>
        /\ ~Falsy(GLOBAL_AVATAR) => last.exc = None /\ last.avatar_id = GLOBAL_AVATAR
        /\ last.exc = None => last.voice_id = GLOBAL_VOICE
        /\ Falsy(GLOBAL_AVATAR) => Len(last.calls) = 1

(* C8, amended: for a configured language that is no key of the table the
   active language is "en"; resolution with no explicit override yields the
   "en" table entry where it is non-empty, else the global default (for the
   avatar, the first listed avatar when both are empty), and raises nothing
   when one of them gives an avatar. The demo script resolves the same way. *)
UnknownLangUsesEn ==
    /\ UnknownLang => DEFAULT_LANG = "en"
    /\ (/\ last.op = "resolve" /\ UnknownLang
        /\ Falsy(last.req_avatar) /\ Falsy(last.req_voice)) =>
           LET av == <<env.EN_AVATAR_ID, env.AVATAR_ID>>
               vo == <<env.EN_VOICE_ID, env.VOICE_ID>>
           IN  /\ AnyNonEmpty(av) =>
                    last.exc = None /\ last.avatar_id = FirstNonEmpty(av)
               /\ ~AnyNonEmpty(av) => Len(last.calls) = 1
               /\ last.exc = None =>
                    IF AnyNonEmpty(vo) THEN last.voice_id = FirstNonEmpty(vo)
                    ELSE Falsy(last.voice_id)
    /\ (last.op = "demo_resolve" /\ UnknownLang) =>
           LET av == <<env.EN_AVATAR_ID, env.AVATAR_ID>>
           IN  IF AnyNonEmpty(av) THEN last.avatar_id = FirstNonEmpty(av)
               ELSE Falsy(last.avatar_id)

\* lang "fr", global avatar "g1", nothing configured for "en": ("g1", None)
UnknownLangWitness ==
    /\ last.op = "resolve"
    /\ env.DEFAULT_LANG = "fr"
    /\ Falsy(last.req_avatar) /\ Falsy(last.req_voice)
    /\ GLOBAL_AVATAR = "g1" /\ GLOBAL_VOICE = None
    /\ Falsy(env.EN_AVATAR_ID) /\ Falsy(env.EN_VOICE_ID)
    /\ ~Falsy(env.FA_AVATAR_ID)
    /\ last.avatar_id = "g1" /\ last.voice_id = None

(* C9: create_session issues the open-session call only with a non-empty
   avatar_id; when no explicit, language-mapped or global avatar exists and
   the listing gives no avatar id, resolution raises and neither the
   token-mint call nor the open-session call is issued. *)
OpenOnlyWithAvatar ==
    last.op = "create_session" =>
        /\ \A i \in DOMAIN last.calls :
              last.calls[i].api = "streaming.new" => ~Falsy(last.calls[i].avatar_id)
        /\ (Issues(last, "avatar.list") /\ ListingGivesNoAvatar(last.listed)) =>
              /\ last.exc # None
              /\ last.status # 200
              /\ ~Issues(last, "streaming.create_token")
              /\ ~Issues(last, "streaming.new")

OpenOnlyWithAvatarWitness ==
    /\ last.op = "create_session"
    /\ Falsy(last.req_avatar)
    /\ Issues(last, "avatar.list")
    /\ ListingGivesNoAvatar(last.listed)
    /\ last.listed.avatars # <<>>
    /\ last.status = 502

(* C10, as claimed: on every endpoint, when the vendor call fails at the
   network level (status 503), the registry after the operation is the
   registry before it. *)
NetworkFailureKeepsRegistry ==
    (last.op \in Endpoints /\ last.calls # <<>> /\ NetworkFailure(last.resp))
        => sessions = last.before

(* C10, amended: when the vendor call of create_session or talk fails at the
   network level the endpoint answers 503 and the registry is unchanged; when
   the vendor call of stop fails so, it answers 503 and the registry is the
   registry before it without the entry of the stopped session_id. *)
NetworkFailureRegistry ==
    (last.op \in Endpoints /\ last.calls # <<>> /\ NetworkFailure(last.resp)) =>
        /\ last.status = 503
        /\ last.op \in {"create_session", "talk"} => sessions = last.before
        /\ last.op = "stop" =>
              /\ DOMAIN sessions = DOMAIN last.before \ {last.session_id}
              /\ \A k \in DOMAIN sessions : sessions[k] = last.before[k]

\* a talk to a registered session whose vendor call timed out
NetworkFailureWitness ==
    /\ last.op = "talk"
    /\ last.session_id \in DOMAIN last.before
    /\ NetworkFailure(last.resp)
    /\ last.status = 503

\* The place of a vendor call in the body of create_session
CreateOrder(api) ==
    CASE api = "avatar.list" -> 0
      [] api = "streaming.create_token" -> 1
      [] api = "streaming.new" -> 2
      [] api = "streaming.start" -> 3
      [] OTHER -> 4

(* C12: no vendor call is retried.  The calls of one create_session request
   are, in this order and each at most once, the avatar listing, the token
   mint, the open-session call and the start-session call, so the start call
   goes out at most once and for one session_id; one talk request issues at
   most one task call and nothing else, one stop request at most one stop
   call and nothing else. *)
NoCallRetried ==
    /\ last.op = "create_session" =>
          /\ \A i \in DOMAIN last.calls : CreateOrder(last.calls[i].api) < 4
          /\ \A i, j \in DOMAIN last.calls :
                i < j => CreateOrder(last.calls[i].api) < CreateOrder(last.calls[j].api)
    /\ last.op = "talk" =>
          /\ Len(last.calls) <= 1
          /\ \A i \in DOMAIN last.calls : last.calls[i].api = "streaming.task"
    /\ last.op = "stop" =>
          /\ Len(last.calls) <= 1
          /\ \A i \in DOMAIN last.calls : last.calls[i].api = "streaming.stop"

\* a create_session whose start call timed out after the mint and the open call
NoCallRetriedWitness ==
    /\ last.op = "create_session"
    /\ Issues(last, "streaming.create_token")
    /\ Issues(last, "streaming.new")
    /\ LastApi = "streaming.start"
    /\ NetworkFailure(last.resp)
    /\ last.status = 503

\* How many avatar-listing calls the operation issued
ListingCalls == Cardinality({i \in DOMAIN last.calls : last.calls[i].api = "avatar.list"})

(* C13: in every create_session request, a resolution that finds no explicit,
   language-mapped or global avatar issues exactly one listing call, and the
   avatar the session is opened with is the first one of the answer to that
   very call; a resolution that finds an explicit, language-mapped or global
   avatar issues no listing call. *)
FreshListingPerResolution ==
    last.op = "create_session" =>
        LET av == <<last.req_avatar, LANG_MAP[DEFAULT_LANG].avatar, GLOBAL_AVATAR>>
            first == last.listed.avatars[1]
        IN  /\ AnyNonEmpty(av) => ListingCalls = 0
            /\ ~AnyNonEmpty(av) =>
                  /\ ListingCalls = 1
                  /\ \A i \in DOMAIN last.calls :
                        last.calls[i].api = "streaming.new" =>
                            /\ last.listed.avatars # <<>>
                            /\ last.calls[i].avatar_id =
                                   FirstNonEmpty(<<first.avatar_id, first.id>>)

\* a later request (a session is registered already) that falls back to the
\* listing and opens the session with the avatar listed for it
FreshListingWitness ==
    /\ last.op = "create_session"
    /\ last.before # EmptyRegistry
    /\ ListingCalls = 1
    /\ Issues(last, "streaming.new")
    /\ last.listed.avatars # <<>>
    /\ last.listed.avatars[1].id = "l2"
    /\ last.status = 200

(* C14: stop for a session_id that is not in the registry answers
   "already_closed" with status 200, issues no vendor call and leaves the
   registry as it was; and since the registry holds no entry for a session_id
   once stop has run for it, the next stop of that session finds it absent
   and does not reach the vendor either. *)
StopUnknownIsAlreadyClosed ==
    last.op = "stop" =>
        /\ last.session_id \notin DOMAIN last.before =>
              /\ last.body = "already_closed"
              /\ last.status = 200
              /\ last.calls = <<>>
              /\ sessions = last.before
        /\ last.session_id \in DOMAIN last.before =>
              /\ Len(last.calls) = 1
              /\ last.session_id \notin DOMAIN sessions

\* a stop of an unknown session while another session is registered
StopUnknownWitness ==
    /\ last.op = "stop"
    /\ last.session_id \notin DOMAIN last.before
    /\ last.before # EmptyRegistry
    /\ last.body = "already_closed"

\* The vendor's answer to the call `api` of the operation that ran last
AnswerTo(api) == last.answers[CHOOSE i \in DOMAIN last.calls : last.calls[i].api = api]

\* The vendor call `api` of the operation that ran last
CallTo(api) == last.calls[CHOOSE i \in DOMAIN last.calls : last.calls[i].api = api]

\* An answer the transport layer passes on: it came back, parses as JSON and
\* has no error status
Passed(r) == r.raises = "none" /\ r.json # "nonjson" /\ r.status < 400

\* The token-mint call gave a token
MintSucceeded(r) == Passed(r) /\ r.json = "dict" /\ ~Falsy(r.token)

\* The open-session call was answered with the success sentinel
OpenSucceeded(r) == Passed(r) /\ r.json = "dict" /\ r.code = SUCCESS_CODE

\* The entries of the registry that are new or hold another token than before
GainedEntries ==
    {k \in DOMAIN sessions : k \notin DOMAIN last.before \/ sessions[k] # last.before[k]}

(* C15: the registry gains an entry only in a create_session request whose
   token-mint, open-session (code 100) and start-session calls were issued in
   that order and all succeeded, and the entry is the one of the session that
   was started, holding the minted token; when the mint fails, neither the
   open nor the start call is issued, when the open call fails the start call
   is not issued, and in each of the three failures the registry is the
   registry before the request. *)
RegistryGainsOnlyOnSuccess ==
    last.op \in Endpoints =>
        /\ GainedEntries # {} =>
              /\ last.op = "create_session"
              /\ Issues(last, "streaming.create_token")
              /\ Issues(last, "streaming.new")
              /\ LastApi = "streaming.start"
              /\ MintSucceeded(AnswerTo("streaming.create_token"))
              /\ OpenSucceeded(AnswerTo("streaming.new"))
              /\ Passed(AnswerTo("streaming.start"))
              /\ GainedEntries = {CallTo("streaming.start").session_id}
              /\ CallTo("streaming.start").session_id =
                     AnswerTo("streaming.new").session_id
              /\ sessions[CallTo("streaming.start").session_id] =
                     AnswerTo("streaming.create_token").token
        /\ (Issues(last, "streaming.create_token")
              /\ ~MintSucceeded(AnswerTo("streaming.create_token"))) =>
              /\ ~Issues(last, "streaming.new")
              /\ ~Issues(last, "streaming.start")
              /\ sessions = last.before
        /\ (Issues(last, "streaming.new")
              /\ ~OpenSucceeded(AnswerTo("streaming.new"))) =>
              /\ ~Issues(last, "streaming.start")
              /\ sessions = last.before
        /\ (Issues(last, "streaming.start")
              /\ ~Passed(AnswerTo("streaming.start"))) =>
              sessions = last.before

\* a second session is registered after all three calls succeeded
RegistryGainsWitness ==
    /\ last.op = "create_session"
    /\ last.before # EmptyRegistry
    /\ GainedEntries # {}
    /\ DOMAIN sessions # DOMAIN last.before
    /\ last.status = 200

(* C16: after a create_session request has finished, the session_id the vendor
   returned in a successful open-session call of that request is in the
   registry, or a vendor stop call has been issued for it. *)
OpenedSessionReachable ==
    (/\ last.op = "create_session"
     /\ Issues(last, "streaming.new")
     /\ OpenSucceeded(AnswerTo("streaming.new"))
     /\ AnswerTo("streaming.new").session_id \in SessionIds) =>
        \/ AnswerTo("streaming.new").session_id \in DOMAIN sessions
        \/ \E i \in DOMAIN last.calls :
              /\ last.calls[i].api = "streaming.stop"
              /\ last.calls[i].session_id = AnswerTo("streaming.new").session_id

\* The registry entry of a session_id, None when there is none
Entry(reg, k) == IF k \in DOMAIN reg THEN reg[k] ELSE None

\* The thread took a step
Acting(w) == threads'[w] # threads[w]

\* The thread took a talk or stop request, which starts with its read of the
\* registry
Reads(w) == threads[w].pc = "idle" /\ threads'[w].op \in {"talk", "stop"}

(* C11: under every interleaving of create_session, talk and stop requests,
   a step of a request on one session_id leaves the registry entry of every
   other session_id as it was (not added, not removed, not changed); and what
   a talk or stop request reads, and with it whether it answers "unknown
   session", is the entry of its own session_id alone, so that requests on
   another session_id do not change its outcome. *)
RegistryNonInterference ==
    [][\A w \in Workers : Acting(w) =>
          /\ \A k \in SessionIds \ {threads[w].session_id, threads'[w].session_id} :
                Entry(sessions', k) = Entry(sessions, k)
          /\ Reads(w) =>
                /\ threads'[w].session_token = Entry(sessions, threads'[w].session_id)
                /\ (threads'[w].pc = "done" /\ threads'[w].status \in {200, 404})
                      <=> Entry(sessions, threads'[w].session_id) = None]_vars

\* a stop has removed the entry of one session while a talk that has read the
\* token of another session is in flight, and that entry is still what it read
RegistryNonInterferenceWitness ==
    \E w, v \in Workers :
        /\ threads[w].op = "stop" /\ threads[w].pc = "done"
        /\ threads[w].call.api = "streaming.stop"
        /\ threads[v].op = "talk" /\ threads[v].pc = "task"
        /\ threads[v].session_id # threads[w].session_id
        /\ Entry(sessions, threads[w].session_id) = None
        /\ Entry(sessions, threads[v].session_id) = threads[v].session_token

\* The thread issues the vendor task call in this step
SendsTask(w) ==
    /\ threads[w].pc = "task"
    /\ threads'[w].call.api = "streaming.task"

(* C17: under every interleaving of talk and stop requests, no vendor task
   call for a session_id is issued once the vendor stop call for that
   session_id has been issued. *)
NoTaskAfterStop ==
    [][\A w \in Workers :
          SendsTask(w) => threads'[w].call.session_id \notin vendor.stopped]_vars

\* The thread writes the registry entry of the session it created in this step
Registers(w) == threads[w].pc = "put" /\ threads'[w].pc = "done"

(* C18: in every reachable state and under every interleaving of the
   requests, the token the registry holds for a session_id is a token the
   vendor minted and the one the session was opened with; the request that
   writes the entry writes the token the vendor minted for that very request,
   after it has opened and started the session with it; and every vendor task
   or stop call for a session_id carries the token the session was opened
   with. *)
RegistryTokenIsSessionToken ==
    [][/\ \A k \in DOMAIN sessions' :
             /\ sessions'[k] \in vendor'.minted
             /\ sessions'[k] = vendor'.opened[k]
       /\ \A w \in Workers :
             /\ Registers(w) =>
                   /\ threads[w].session_id \in DOMAIN sessions'
                   /\ sessions'[threads[w].session_id] = threads[w].minted
                   /\ vendor.opened[threads[w].session_id] = threads[w].minted
                   /\ threads[w].call.api = "streaming.start"
                   /\ threads[w].call.session_id = threads[w].session_id
                   /\ threads[w].call.token = threads[w].minted
             /\ threads'[w].call.api \in {"streaming.task", "streaming.stop"} =>
                   threads'[w].call.token = vendor'.opened[threads'[w].call.session_id]]_vars

\* two create_session requests were in flight together and both sessions are
\* registered, each with the token of its own request
RegistryTokenWitness ==
    \E w, v \in Workers :
        /\ w # v
        /\ threads[w].op = "create_session" /\ threads[w].pc = "done"
        /\ threads[v].op = "create_session" /\ threads[v].pc = "done"
        /\ threads[w].status = 200 /\ threads[v].status = 200
        /\ threads[w].minted # threads[v].minted
        /\ Entry(sessions, threads[w].session_id) = threads[w].minted
        /\ Entry(sessions, threads[v].session_id) = threads[v].minted

====
